---- MODULE Spec2Model ----
(***************************************************************************)
(* Campus energy dashboard: load_and_merge, the three aggregations, the    *)
(* Building / BuildingManager registry and the control flow of main, as a  *)
(* state machine.  Source: src/campus_energy_dashboard/data/Python code/   *)
(* main.py.                                                                *)
(*                                                                         *)
(* Timestamps are whole hours since Monday 2025-01-06 00:00.  kwh values   *)
(* are integers, with Inf standing for float("inf").  A missing building   *)
(* cell is the string "NaN" (which read_csv itself reads as missing).      *)
(***************************************************************************)
EXTENDS Integers, Sequences, FiniteSets

\* ------------------------------------------------------------------ bounds
MaxFiles == 2
MaxRows == 2
MaxCalls == 5

\* -------------------------------------------------------- program constants
HoursPerDay == 24
DaysPerWeek == 7

\* the null timestamp and the null number the coercions leave, float("inf"),
\* and the missing building cell
NaT == -1
NaN == -1000
Inf == 1000
NaNB == "NaN"

VARIABLES
  pc,                   \* position in main / load_and_merge
  files,                \* sorted(data_path.glob("*.csv")), as file ids
  idx,                  \* index of the next file of the for loop
  frames,               \* load_and_merge: frames
  log,                  \* load_and_merge: log
  srcs,                 \* what each source processed so far held (input record)
  merged,               \* the dataset load_and_merge returns (df in main)
  daily_totals,         \* main: daily_totals
  weekly_totals,        \* main: weekly_totals
  building_summary,     \* main: building_summary
  manager,              \* main: manager (BuildingManager and its Building objects)
  building_summary_oop, \* main: building_summary_oop
  outputs,              \* the output files written so far
  err,                  \* the exception that ended the run, or "none"
  client                \* registry interface: handles held and readings added

vars == <<pc, files, idx, frames, log, srcs, merged, daily_totals,
          weekly_totals, building_summary, manager, building_summary_oop,
          outputs, err, client>>

\* ----------------------------------------------------------------- helpers
FileIds == 1..MaxFiles

FileNames == <<"a.csv", "b.csv", "c.csv", "d.csv">>

Stems == <<"a", "b", "c", "d">>

Stem(f) == Stems[f]

SetMin(S) == CHOOSE x \in S : \A y \in S : x <= y

SetMax(S) == CHOOSE x \in S : \A y \in S : x >= y

RECURSIVE Sorted(_)
Sorted(S) == IF S = {} THEN <<>> ELSE <<SetMin(S)>> \o Sorted(S \ {SetMin(S)})

SeqsUpTo(S, n) == UNION {[1..k -> S] : k \in 0..n}

Range(s) == {s[i] : i \in 1..Len(s)}

RECURSIVE Concat(_)
Concat(fs) == IF fs = <<>> THEN <<>> ELSE Head(fs) \o Concat(Tail(fs))

\* float addition on the modelled values: anything plus inf is inf
FAdd(x, y) == IF x = Inf \/ y = Inf THEN Inf ELSE x + y

RECURSIVE FSum(_)
FSum(s) == IF s = <<>> THEN 0 ELSE FAdd(Head(s), FSum(Tail(s)))

\* ------------------------------------------------------------ raw sources
RawTimestamps == {"2025-01-06 12:00", "2025-01-21 00:00", "not-a-date"}

RawKwh == {"-1", "1", "inf", "abc"}

RawBuildings == {NaNB, "a"}

AllColumns == {"timestamp", "kwh", "building"}

RawRows(cols) == IF "building" \in cols
                 THEN [timestamp : RawTimestamps, kwh : RawKwh, building : RawBuildings]
                 ELSE [timestamp : RawTimestamps, kwh : RawKwh]

\* pd.to_datetime(..., errors="coerce") on one cell
ToDatetime(s) == CASE s = "2025-01-06 00:00" -> 0
                   [] s = "2025-01-06 12:00" -> 12
                   [] s = "2025-01-21 00:00" -> 360
                   [] OTHER -> NaT

\* pd.to_numeric(..., errors="coerce") on one cell
ToNumeric(s) == CASE s = "-1" -> -1
                  [] s = "1" -> 1
                  [] s = "2" -> 2
                  [] s = "inf" -> Inf
                  [] OTHER -> NaN

\* lines 93-96: coerce both columns, drop the rows either coercion left null
Validate(rows) ==
  LET ts == [i \in 1..Len(rows) |-> [rows[i] EXCEPT !.timestamp = ToDatetime(@)]]
      a  == SelectSeq(ts, LAMBDA r : r.timestamp # NaT)
      kw == [i \in 1..Len(a) |-> [a[i] EXCEPT !.kwh = ToNumeric(@)]]
  IN  SelectSeq(kw, LAMBDA r : r.kwh # NaN)

\* lines 98-99: the filename stem where the source has no building column
TagBuilding(cols, rows, f) ==
  IF "building" \in cols THEN rows
  ELSE [i \in 1..Len(rows) |->
          [timestamp |-> rows[i].timestamp, kwh |-> rows[i].kwh, building |-> Stem(f)]]

\* --------------------------------------------------------- load_and_merge
LoopRunning == pc = "load" /\ idx <= Len(files)

Untouched == UNCHANGED <<files, merged, daily_totals, weekly_totals,
                         building_summary, manager, building_summary_oop,
                         outputs, client>>

\* read_csv raises FileNotFoundError: logged, next file
LoadMissing ==
  /\ LoopRunning
  /\ log' = Append(log, [msg |-> "Missing file", file |-> FileNames[files[idx]]])
  /\ srcs' = Append(srcs, [file |-> files[idx], kind |-> "missing", nraw |-> 0, nvalid |-> 0])
  /\ idx' = idx + 1
  /\ UNCHANGED <<pc, frames, err>>
  /\ Untouched

\* read_csv raises anything else (EmptyDataError of a zero-byte file,
\* PermissionError, UnicodeDecodeError, ...): not caught, the run ends
LoadRaises ==
  /\ LoopRunning
  /\ srcs' = Append(srcs, [file |-> files[idx], kind |-> "unreadable", nraw |-> 0, nvalid |-> 0])
  /\ pc' = "raised"
  /\ err' = "read_csv error"
  /\ UNCHANGED <<idx, frames, log>>
  /\ Untouched

\* the frame read lacks timestamp or kwh: logged, next file
LoadInvalidStructure ==
  /\ LoopRunning
  /\ \E cols \in SUBSET AllColumns :
       /\ "timestamp" \notin cols \/ "kwh" \notin cols
       /\ log' = Append(log, [msg |-> "Invalid structure", file |-> FileNames[files[idx]]])
       /\ srcs' = Append(srcs, [file |-> files[idx], kind |-> "invalid", nraw |-> 0, nvalid |-> 0])
  /\ idx' = idx + 1
  /\ UNCHANGED <<pc, frames, err>>
  /\ Untouched

\* the frame read has both columns: validated, tagged, appended
LoadFrame ==
  /\ LoopRunning
  /\ \E cols \in {AllColumns, AllColumns \ {"building"}} :
       \E raw \in SeqsUpTo(RawRows(cols), MaxRows) :
         LET df == TagBuilding(cols, Validate(raw), files[idx])
         IN  /\ frames' = Append(frames, df)
             /\ srcs' = Append(srcs, [file |-> files[idx], kind |-> "frame",
                                      nraw |-> Len(raw), nvalid |-> Len(df)])
  /\ idx' = idx + 1
  /\ UNCHANGED <<pc, log, err>>
  /\ Untouched

\* lines 103-104
LoadNoFrames ==
  /\ pc = "load" /\ idx > Len(files)
  /\ frames = <<>>
  /\ pc' = "raised"
  /\ err' = "ValueError: No valid CSV files found"
  /\ UNCHANGED <<idx, frames, log, srcs>>
  /\ Untouched

Perms(n) == {p \in [1..n -> 1..n] : \A i, j \in 1..n : i # j => p[i] # p[j]}

\* the orders sort_values("timestamp") may leave the rows in: its default
\* kind is quicksort, which is not stable, so rows of equal timestamp come
\* out in any order
SortOrders(rows) ==
  {p \in Perms(Len(rows)) :
     \A i, j \in 1..Len(rows) : i < j => rows[p[i]].timestamp <= rows[p[j]].timestamp}

\* lines 106-110: concat, sort_values, reset_index, print the log
Merge ==
  /\ pc = "load" /\ idx > Len(files)
  /\ frames # <<>>
  /\ LET cat == Concat(frames)
     IN  \E p \in SortOrders(cat) : merged' = [i \in 1..Len(cat) |-> cat[p[i]]]
  /\ pc' = "return"
  /\ UNCHANGED <<files, idx, frames, log, srcs, daily_totals, weekly_totals,
                 building_summary, manager, building_summary_oop, outputs, err, client>>

\* line 112: load_and_merge returns merged; its locals are gone
Return ==
  /\ pc = "return"
  /\ pc' = "daily"
  /\ files' = <<>> /\ idx' = 1 /\ frames' = <<>> /\ log' = <<>> /\ srcs' = <<>>
  /\ UNCHANGED <<merged, daily_totals, weekly_totals, building_summary, manager,
                 building_summary_oop, outputs, err, client>>

\* ------------------------------------------------------------- aggregation
\* the group keys of df.groupby("building"): missing keys are dropped
Groups(df) == {r.building : r \in Range(df)} \ {NaNB}

Day(t) == t \div HoursPerDay

\* "W" is W-SUN: a week is labelled by the Sunday that ends it (day 0 is a Monday)
WeekEnd(d) == d + (DaysPerWeek - 1 - (d % DaysPerWeek))

KwhOf(df) == [i \in 1..Len(df) |-> df[i].kwh]

\* groupby("building")["kwh"].resample("D").sum(): per building, one bin for
\* every day from its first reading to its last, an empty bin summing to 0
DailyTotals(df) ==
  UNION {
    LET rows == SelectSeq(df, LAMBDA r : r.building = b)
        days == {Day(r.timestamp) : r \in Range(rows)}
    IN  {[building |-> b, timestamp |-> d * HoursPerDay,
          kwh |-> FSum(KwhOf(SelectSeq(rows, LAMBDA r : Day(r.timestamp) = d)))]
         : d \in SetMin(days)..SetMax(days)}
    : b \in Groups(df)}

\* groupby("building")["kwh"].resample("W").sum(): likewise, by weeks
WeeklyTotals(df) ==
  UNION {
    LET rows == SelectSeq(df, LAMBDA r : r.building = b)
        ends == {WeekEnd(Day(r.timestamp)) : r \in Range(rows)}
    IN  {[building |-> b, timestamp |-> e * HoursPerDay,
          kwh |-> FSum(KwhOf(SelectSeq(rows, LAMBDA r : WeekEnd(Day(r.timestamp)) = e)))]
         : e \in {x \in SetMin(ends)..SetMax(ends) : WeekEnd(x) = x}}
    : b \in Groups(df)}

\* a mean, kept as the fraction it is
Mean(vals) == [num |-> FSum(vals), den |-> Len(vals)]

ZeroMean == [num |-> 0, den |-> 1]

\* lines 131-134
BuildingWiseSummary(df) ==
  {LET vals == KwhOf(SelectSeq(df, LAMBDA r : r.building = b))
   IN  [building |-> b, mean_kwh |-> Mean(vals), min_kwh |-> SetMin(Range(vals)),
        max_kwh |-> SetMax(Range(vals)), total_kwh |-> FSum(vals)]
   : b \in Groups(df)}

Downstream(next) ==
  /\ pc' = next
  /\ UNCHANGED <<files, idx, frames, log, srcs, merged, err, client>>

RaisesAt(what) ==
  /\ pc' = "raised"
  /\ err' = what
  /\ UNCHANGED <<files, idx, frames, log, srcs, merged, daily_totals,
                 weekly_totals, building_summary, manager, building_summary_oop,
                 outputs, client>>

\* line 201
CalculateDailyTotals ==
  /\ pc = "daily"
  /\ daily_totals' = DailyTotals(merged)
  /\ Downstream("weekly")
  /\ UNCHANGED <<weekly_totals, building_summary, manager, building_summary_oop, outputs>>

\* line 201, no group to resample: whether groupby(...).resample(...) of a
\* frame without groups returns an empty table or raises depends on the
\* pandas release
CalculateDailyTotalsRaises ==
  /\ pc = "daily"
  /\ Groups(merged) = {}
  /\ RaisesAt("resample of an empty frame")

\* line 202
CalculateWeeklyAggregates ==
  /\ pc = "weekly"
  /\ weekly_totals' = WeeklyTotals(merged)
  /\ Downstream("summary")
  /\ UNCHANGED <<daily_totals, building_summary, manager, building_summary_oop, outputs>>

\* line 203
BuildingSummary ==
  /\ pc = "summary"
  /\ building_summary' = BuildingWiseSummary(merged)
  /\ Downstream("manager")
  /\ UNCHANGED <<daily_totals, weekly_totals, manager, building_summary_oop, outputs>>

\* ---------------------------------------------------------------- registry
\* BuildingManager(): no building yet.  heap holds the Building objects, a
\* reference being an index into it; buildings is the dict, in insertion order
EmptyManager == [heap |-> <<>>, buildings |-> <<>>]

\* Building(name)
NewBuilding(name) == [name |-> name, meter_readings |-> <<>>]

\* MeterReading(timestamp, kwh)
MeterReading(ts, kwh) == [timestamp |-> ts, kwh |-> kwh]

Entries(mgr, name) == {i \in 1..Len(mgr.buildings) : mgr.buildings[i].name = name}

\* a get_or_create that builds a Building on every call and binds the name to it
GetOrCreateAlwaysNew(mgr, name) ==
  LET ref == Len(mgr.heap) + 1
      heap == Append(mgr.heap, NewBuilding(name))
  IN  [mgr |-> [heap |-> heap,
                buildings |->
                  IF Entries(mgr, name) = {}
                  THEN Append(mgr.buildings, [name |-> name, ref |-> ref])
                  ELSE [i \in 1..Len(mgr.buildings) |->
                          IF mgr.buildings[i].name = name
                          THEN [name |-> name, ref |-> ref] ELSE mgr.buildings[i]]],
       ref |-> ref]

\* lines 60-63: the manager after the call, and the Building returned
GetOrCreate(mgr, name) ==
  IF Entries(mgr, name) = {}
  THEN [mgr |-> [heap |-> Append(mgr.heap, NewBuilding(name)),
                 buildings |-> Append(mgr.buildings,
                                      [name |-> name, ref |-> Len(mgr.heap) + 1])],
        ref |-> Len(mgr.heap) + 1]
  ELSE [mgr |-> mgr, ref |-> mgr.buildings[CHOOSE i \in Entries(mgr, name) : TRUE].ref]

\* get_or_create as load_from_df calls it.  A missing building is the key
\* float nan, which equals no key, itself included, and is found again only
\* when it is the very same object: whether two rows carry the same nan
\* object depends on how pandas boxed the column, so a nan key either hits
\* an earlier nan entry or makes a new one
GetOrCreateKey(mgr, name) ==
  IF name # NaNB THEN {GetOrCreate(mgr, name)}
  ELSE {[mgr |-> [heap |-> Append(mgr.heap, NewBuilding(name)),
                  buildings |-> Append(mgr.buildings,
                                       [name |-> name, ref |-> Len(mgr.heap) + 1])],
         ref |-> Len(mgr.heap) + 1]}
       \cup {[mgr |-> mgr, ref |-> mgr.buildings[i].ref] : i \in Entries(mgr, name)}

\* lines 33-34, on the Building at ref
AddReading(mgr, ref, reading) ==
  [mgr EXCEPT !.heap[ref].meter_readings = Append(@, reading)]

\* lines 36-37
CalculateTotalConsumption(b) == FSum(KwhOf(b.meter_readings))

\* lines 39-53
GenerateReport(b) ==
  IF b.meter_readings = <<>>
  THEN [building |-> b.name, total_kwh |-> 0, mean_kwh |-> ZeroMean, max_kwh |-> 0]
  ELSE LET vals == KwhOf(b.meter_readings)
       IN  [building |-> b.name, total_kwh |-> FSum(vals), mean_kwh |-> Mean(vals),
            max_kwh |-> SetMax(Range(vals))]

\* lines 65-71: the managers load_from_df may leave, from each of mgrs
RECURSIVE LoadFromDf(_, _)
LoadFromDf(mgrs, df) ==
  IF df = <<>> THEN mgrs
  ELSE LoadFromDf(
         UNION {{AddReading(g.mgr, g.ref, MeterReading(Head(df).timestamp, Head(df).kwh))
                 : g \in GetOrCreateKey(m, Head(df).building)} : m \in mgrs},
         Tail(df))

\* lines 73-75
SummaryTable(mgr) ==
  [i \in 1..Len(mgr.buildings) |-> GenerateReport(mgr.heap[mgr.buildings[i].ref])]

\* lines 205-206
ManagerLoadFromDf ==
  /\ pc = "manager"
  /\ manager' \in LoadFromDf({EmptyManager}, merged)
  /\ Downstream("summary_table")
  /\ UNCHANGED <<daily_totals, weekly_totals, building_summary, building_summary_oop, outputs>>

\* line 207
ManagerSummaryTable ==
  /\ pc = "summary_table"
  /\ building_summary_oop' = SummaryTable(manager)
  /\ Downstream("to_csv_summary")
  /\ UNCHANGED <<daily_totals, weekly_totals, building_summary, manager, outputs>>

\* ------------------------------------------------------------------ outputs
Writes(file, next) ==
  /\ outputs' = outputs \cup {file}
  /\ Downstream(next)
  /\ UNCHANGED <<daily_totals, weekly_totals, building_summary, manager, building_summary_oop>>

\* line 209
WriteSummaryCsv == pc = "to_csv_summary" /\ Writes("building_summary.csv", "to_csv_cleaned")

\* line 210
WriteCleanedCsv == pc = "to_csv_cleaned" /\ Writes("cleaned_energy_data.csv", "dashboard")

\* line 212: there is something to plot
CreateDashboard ==
  /\ pc = "dashboard"
  /\ daily_totals # {}
  /\ Writes("dashboard.png", "write_summary")

\* line 212, lines 140-141: the pivot of an empty daily table has no column,
\* and plotting it raises TypeError (no numeric data to plot)
CreateDashboardRaises ==
  /\ pc = "dashboard"
  /\ daily_totals = {}
  /\ RaisesAt("TypeError: no numeric data to plot")

\* lines 213-215: reached only with a daily table, hence with a registry, that
\* is not empty
WriteSummary == pc = "write_summary" /\ Writes("summary.txt", "done")

\* ---------------------------------------------------------- specifications
NoClient == [handles |-> <<>>, added |-> <<>>, report |-> <<>>]

Init ==
  /\ pc = "load"
  /\ files \in {Sorted(S) : S \in SUBSET FileIds}
  /\ idx = 1
  /\ frames = <<>>
  /\ log = <<>>
  /\ srcs = <<>>
  /\ merged = <<>>
  /\ daily_totals = {}
  /\ weekly_totals = {}
  /\ building_summary = {}
  /\ manager = EmptyManager
  /\ building_summary_oop = <<>>
  /\ outputs = {}
  /\ err = "none"
  /\ client = NoClient

Next ==
  \/ LoadMissing
  \/ LoadRaises
  \/ LoadInvalidStructure
  \/ LoadFrame
  \/ LoadNoFrames
  \/ Merge
  \/ Return
  \/ CalculateDailyTotals
  \/ CalculateDailyTotalsRaises
  \/ CalculateWeeklyAggregates
  \/ BuildingSummary
  \/ ManagerLoadFromDf
  \/ ManagerSummaryTable
  \/ WriteSummaryCsv
  \/ WriteCleanedCsv
  \/ CreateDashboard
  \/ CreateDashboardRaises
  \/ WriteSummary

Spec == Init /\ [][Next]_vars
\* ------------------------------------------------ the registry's interface
\* A caller of the BuildingManager: the handles get_or_create returned to it,
\* call by call, the readings it added through them, and the report it last
\* asked for
RegNames == {"X", "Y"}

RegReadings == {MeterReading(12, 1), MeterReading(12, 2)}

Calls == Len(client.handles) + Len(client.added)

RegUnchanged == UNCHANGED <<pc, files, idx, frames, log, srcs, merged,
                            daily_totals, weekly_totals, building_summary,
                            building_summary_oop, outputs, err>>

\* b = manager.get_or_create(name)
RegGetOrCreate ==
  /\ pc = "registry" /\ Calls < MaxCalls
  /\ \E name \in RegNames :
       LET g == GetOrCreate(manager, name)
       IN  /\ manager' = g.mgr
           /\ client' = [client EXCEPT !.handles = Append(@, [name |-> name, ref |-> g.ref]),
                                       !.report = <<>>]
  /\ RegUnchanged

\* b.add_reading(reading), b a handle some get_or_create returned
RegAddReading ==
  /\ pc = "registry" /\ Calls < MaxCalls
  /\ \E h \in 1..Len(client.handles), r \in RegReadings :
       /\ manager' = AddReading(manager, client.handles[h].ref, r)
       /\ client' = [client EXCEPT !.added = Append(@, [handle |-> h, reading |-> r]),
                                   !.report = <<>>]
  /\ RegUnchanged

\* b.generate_report()
RegGenerateReport ==
  /\ pc = "registry"
  /\ \E h \in 1..Len(client.handles) :
       client' = [client EXCEPT !.report =
                    <<[handle |-> h,
                       rep |-> GenerateReport(manager.heap[client.handles[h].ref])]>>]
  /\ UNCHANGED manager
  /\ RegUnchanged

RegInit ==
  /\ pc = "registry"
  /\ files = <<>>
  /\ idx = 1
  /\ frames = <<>>
  /\ log = <<>>
  /\ srcs = <<>>
  /\ merged = <<>>
  /\ daily_totals = {}
  /\ weekly_totals = {}
  /\ building_summary = {}
  /\ manager = EmptyManager
  /\ building_summary_oop = <<>>
  /\ outputs = {}
  /\ err = "none"
  /\ client = NoClient

RegNext ==
  \/ RegGetOrCreate
  \/ RegAddReading
  \/ RegGenerateReport

SpecReg == RegInit /\ [][RegNext]_vars

\* ------------------------------------------------------------------- claims
\* the readings the caller added through any handle it got for name, in order
AddedFor(name) ==
  LET mine == SelectSeq(client.added, LAMBDA a : client.handles[a.handle].name = name)
  IN  [i \in 1..Len(mine) |-> mine[i].reading]

\* C9: after any sequence of get_or_create and add_reading calls, every call
\* of get_or_create with one name returned the same Building, the manager
\* holds one Building per name asked for, that Building holds every reading
\* added through any of the name's handles, and a report gives their sum as
\* total_kwh and the largest of them as max_kwh
C9_GetOrCreateIdempotent ==
  pc = "registry" =>
    /\ \A h1, h2 \in 1..Len(client.handles) :
         client.handles[h1].name = client.handles[h2].name
           => client.handles[h1].ref = client.handles[h2].ref
    /\ Len(manager.heap) = Cardinality({client.handles[h].name : h \in 1..Len(client.handles)})
    /\ \A h \in 1..Len(client.handles) :
         /\ manager.heap[client.handles[h].ref].name = client.handles[h].name
         /\ manager.heap[client.handles[h].ref].meter_readings = AddedFor(client.handles[h].name)
    /\ client.report # <<>> =>
         LET name == client.handles[client.report[1].handle].name
             vals == KwhOf(AddedFor(name))
         IN  /\ client.report[1].rep.building = name
             /\ client.report[1].rep.total_kwh = FSum(vals)
             /\ vals # <<>> => client.report[1].rep.max_kwh = SetMax(Range(vals))

\* C9's case: two readings, 1 and 2, added through the handles of two
\* separate get_or_create("X") calls, and the report then asked for
C9_Witness ==
  /\ pc = "registry"
  /\ client.report # <<>>
  /\ client.handles[client.report[1].handle].name = "X"
  /\ Len(AddedFor("X")) = 2
  /\ \E i, j \in 1..Len(client.added) :
       /\ client.added[i].handle # client.added[j].handle
       /\ client.handles[client.added[i].handle].name = "X"
       /\ client.handles[client.added[j].handle].name = "X"
       /\ client.added[i].reading.kwh = 1
       /\ client.added[j].reading.kwh = 2
  /\ client.report[1].rep.total_kwh = 3
  /\ client.report[1].rep.max_kwh = 2
\* a run of load_and_merge in which read_csv raised nothing it does not catch
NoReadError == \A i \in 1..Len(srcs) : srcs[i].kind # "unreadable"

AnyValidRow == \E i \in 1..Len(srcs) : srcs[i].nvalid > 0

LogEntriesFor(f) == {j \in 1..Len(log) : log[j].file = FileNames[f]}

\* C1: load_and_merge raises the no-data error exactly when no source yields
\* a valid row: it returns only if some source contributed a valid row, and
\* it raises, with that error, only if none did (stated over the runs in
\* which every read_csv call returned or raised FileNotFoundError)
C1_FatalExactlyWhenNoValidRow ==
  NoReadError =>
    /\ pc = "return" => AnyValidRow
    /\ pc = "raised" /\ srcs # <<>> =>
         ~AnyValidRow /\ err = "ValueError: No valid CSV files found"

\* C2: a source that lacks timestamp or kwh, or that cannot be read, yields
\* no row, has exactly one log entry naming it, and does not end the run:
\* when load_and_merge is over, by return or by raise, every source of the
\* enumeration has been processed
C2_SkippedSourceLoggedRunContinues ==
  \A i \in 1..Len(srcs) :
    srcs[i].kind \in {"missing", "invalid", "unreadable"} =>
      /\ srcs[i].nvalid = 0
      /\ pc \in {"return", "raised"} =>
           /\ Cardinality(LogEntriesFor(srcs[i].file)) = 1
           /\ Len(srcs) = Len(files)

\* C3: a source that has both fields and whose rows are all malformed yields
\* no row and has exactly one entry in the log load_and_merge ends with
C3_AllMalformedSourceLoggedOnce ==
  pc = "return" =>
    \A i \in 1..Len(srcs) :
      srcs[i].kind = "frame" /\ srcs[i].nraw > 0 /\ srcs[i].nvalid = 0 =>
        Cardinality(LogEntriesFor(srcs[i].file)) = 1

\* r put into the sorted s behind every row that is not later than it
RECURSIVE InsertBehind(_, _)
InsertBehind(s, r) ==
  IF s = <<>> \/ s[Len(s)].timestamp <= r.timestamp THEN Append(s, r)
  ELSE Append(InsertBehind(SubSeq(s, 1, Len(s) - 1), r), s[Len(s)])

\* the rows of s by timestamp ascending, rows of equal timestamp in the order of s
RECURSIVE StableSorted(_)
StableSorted(s) ==
  IF s = <<>> THEN <<>>
  ELSE InsertBehind(StableSorted(SubSeq(s, 1, Len(s) - 1)), s[Len(s)])

\* C4: the dataset load_and_merge returns is sorted by timestamp ascending,
\* and rows of equal timestamp keep the order the concatenation had them in
\* (sources in enumeration order, rows in file order): it is the stable sort
\* of the concatenated frames
C4_SortedAndStable ==
  pc = "return" =>
    /\ \A i, j \in 1..Len(merged) : i < j => merged[i].timestamp <= merged[j].timestamp
    /\ merged = StableSorted(Concat(frames))

\* C5: every row of the merged dataset has a timestamp that is not null and
\* a kwh that is finite and not negative
C5_RowsFiniteNonNegative ==
  \A i \in 1..Len(merged) :
    /\ merged[i].timestamp # NaT
    /\ merged[i].kwh # NaN
    /\ merged[i].kwh # Inf
    /\ merged[i].kwh >= 0

RECURSIVE SumOfTotals(_)
SumOfTotals(S) ==
  IF S = {} THEN 0
  ELSE LET x == CHOOSE y \in S : TRUE IN FAdd(x.total_kwh, SumOfTotals(S \ {x}))

\* C6: the total_kwh of the rows of building_wise_summary add up to the kwh
\* of the rows of the merged dataset
C6_SummaryTotalsAddUp ==
  pc = "manager" => SumOfTotals(building_summary) = FSum(KwhOf(merged))

NamedRows(df) == SelectSeq(df, LAMBDA r : r.building # NaNB)

DayLabel(t) == Day(t) * HoursPerDay

WeekLabel(t) == WeekEnd(Day(t)) * HoursPerDay

PeriodLabel(t, weekly) == IF weekly THEN WeekLabel(t) ELSE DayLabel(t)

\* the table that has one row per (building, period) with a reading in it
SparseTotals(df, weekly) ==
  {[building |-> k[1], timestamp |-> k[2],
    kwh |-> FSum(KwhOf(SelectSeq(df, LAMBDA r : /\ r.building = k[1]
                                                /\ PeriodLabel(r.timestamp, weekly) = k[2])))]
   : k \in {<<r.building, PeriodLabel(r.timestamp, weekly)>> : r \in Range(NamedRows(df))}}

\* C7: calculate_daily_totals and calculate_weekly_aggregates return one row
\* per (building, period) that has a reading, holding the sum of its kwh, and
\* no row for a period without one (stated for the rows that name a building)
C7_TotalsAreSparse ==
  pc = "summary" =>
    /\ daily_totals = SparseTotals(merged, FALSE)
    /\ weekly_totals = SparseTotals(merged, TRUE)

LoadErrors == {"read_csv error", "ValueError: No valid CSV files found"}

\* C8: in a run in which no source yields valid data main stops while
\* loading: it is at most about to call calculate_daily_totals or has raised
\* out of load_and_merge, and no output file has been written
C8_NoDataStopsAtLoading ==
  merged = <<>> =>
    /\ pc \in {"load", "return", "daily", "raised"}
    /\ pc = "raised" => err \in LoadErrors
    /\ outputs = {}

OopRows == {building_summary_oop[i] : i \in 1..Len(building_summary_oop)}

\* C10: after load_from_df(df), summary_table() has the buildings of
\* building_wise_summary(df), each once, with the same total_kwh, mean_kwh
\* and max_kwh
C10_RegistryAgreesWithAggregator ==
  pc = "to_csv_summary" =>
    /\ Len(building_summary_oop) = Cardinality(building_summary)
    /\ {r.building : r \in OopRows} = {r.building : r \in building_summary}
    /\ \A r \in OopRows : \A t \in building_summary :
         r.building = t.building =>
           /\ r.total_kwh = t.total_kwh
           /\ r.mean_kwh = t.mean_kwh
           /\ r.max_kwh = t.max_kwh
\* ------------------------------------------- what the code does guarantee
\* the merged dataset is a reordering of the concatenated frames that is
\* sorted by timestamp ascending, and no row of it has a null timestamp or kwh
MergedSortedNoNulls ==
  /\ \A i, j \in 1..Len(merged) : i < j => merged[i].timestamp <= merged[j].timestamp
  /\ \A i \in 1..Len(merged) : merged[i].timestamp # NaT /\ merged[i].kwh # NaN
  /\ pc = "return" =>
       \E p \in Perms(Len(merged)) :
         merged = [i \in 1..Len(merged) |-> Concat(frames)[p[i]]]

\* a source skipped for FileNotFoundError or for a missing column is logged
\* once, and unless a read_csv call raised something else every source is
\* processed; a source that has both columns is never logged
CaughtSourcesLoggedOnce ==
  \A i \in 1..Len(srcs) :
    /\ srcs[i].kind \in {"missing", "invalid"} =>
         srcs[i].nvalid = 0 /\ Cardinality(LogEntriesFor(srcs[i].file)) = 1
    /\ srcs[i].kind = "frame" => LogEntriesFor(srcs[i].file) = {}
    /\ pc \in {"return", "raised"} /\ NoReadError => Len(srcs) = Len(files)

\* load_and_merge returns exactly when some source had both columns
ReturnsIffSomeFrame ==
  NoReadError =>
    /\ pc = "return" => \E i \in 1..Len(srcs) : srcs[i].kind = "frame"
    /\ pc = "raised" /\ srcs # <<>> => \A i \in 1..Len(srcs) : srcs[i].kind # "frame"

\* the daily and weekly tables hold the row of every (building, period) that
\* has a reading, and every other row of theirs has kwh 0
TotalsAreDense ==
  pc = "summary" =>
    /\ SparseTotals(merged, FALSE) \subseteq daily_totals
    /\ SparseTotals(merged, TRUE) \subseteq weekly_totals
    /\ \A r \in (daily_totals \ SparseTotals(merged, FALSE))
                  \cup (weekly_totals \ SparseTotals(merged, TRUE)) : r.kwh = 0

\* where no row lacks its building, the summary's totals add up to the
\* dataset's and the registry agrees with the aggregator
AgreeWhereBuildingsNamed ==
  (\A i \in 1..Len(merged) : merged[i].building # NaNB) =>
    C6_SummaryTotalsAddUp /\ C10_RegistryAgreesWithAggregator
====
